---- MODULE Spec2Model ----
(***************************************************************************)
(* sodium-alloc: SodiumAllocator, an Allocator over libsodium's guarded    *)
(* heap (src/src/lib.rs).                                                  *)
(*                                                                         *)
(* The Rust code is three short functions: allocate, deallocate and init.  *)
(* Everything they do goes through three foreign calls, sodium_init,       *)
(* sodium_malloc and sodium_free, and the default grow and shrink of the   *)
(* Allocator trait.  The foreign calls are modelled by what the crate      *)
(* documentation (lib.rs 12-24) and the comments at the call sites         *)
(* (lib.rs 97-114) say of them, at the granularity at which threads can    *)
(* interleave:                                                             *)
(*   - sodium_init runs its setup once, under a lock, and returns 0 to the *)
(*     caller that ran it and 1 to a caller that found it done; it returns *)
(*     -1 to a call that fails, which is a failure to take or to release   *)
(*     the lock and is recorded nowhere;                                   *)
(*   - sodium_malloc maps guard pages around whole pages and returns the   *)
(*     last `size` bytes before the trailing guard page, or NULL when it   *)
(*     cannot map them; it leaves the content of the bytes as it is;       *)
(*   - sodium_free zeroes the pages and unmaps them.                       *)
(* The memory is scaled down to a few pages of two bytes.                  *)
(***************************************************************************)
EXTENDS Integers, FiniteSets

(***************************************************************************)
(* Bounds of the model.                                                    *)
(***************************************************************************)
NumThreads == 2          \* threads that call into the allocator
NumPages == 9            \* pages of address space the facility can map
MaxSize == 2             \* largest layout.size() a caller asks for
ProbePage == 5           \* the page whose release and reuse the history records

(***************************************************************************)
(* The facility's geometry, scaled down (libsodium: 4096 and 16).          *)
(***************************************************************************)
PageSize == 2
CanarySize == 1
NULL == 0

Threads == 1..NumThreads
NoThread == 0
Pages == 1..NumPages
Sizes == 0..MaxSize
\* layout.align(): powers of two, up to twice the page size
Aligns == {1, 2, 4}
\* the requests the threads of the concurrent specification make
ConcLayouts == {[size |-> 1, align |-> 2]}
Layouts == [size : Sizes, align : Aligns]
\* the requests of the resizing specification
ResizeLayouts == [size : Sizes, align : {1, 2}]
Addrs == PageSize..(PageSize * (NumPages + 1) - 1)
\* tags that tell the owners of bytes apart: one more than can be live at once
Tags == 1..((NumPages \div 4) + 1)

VARIABLES
    initialized,   \* libsodium's `initialized` flag: the setup has run
    lock,          \* the thread inside sodium_init's critical section
    setupRuns,     \* how many times the one-time setup has run
    regions,       \* the facility's live mappings: [base, upages]
    mem,           \* memory content: 0 (wiped/fresh) or the owner's tag
    held,          \* allocations the callers own: [ptr, len, size, align, id]
    probeFreed,    \* history: sodium_free has released page ProbePage with
                   \* an owner's bytes on it
    pc,            \* per thread: where it is in its call
    kind,          \* per thread: "allocate", "grow" or "shrink"
    old,           \* per thread: the allocation being resized
    lay,           \* per thread: the layout of its request
    initRet,       \* per thread: what sodium_init returned to it
    mcalled,       \* per thread: its call reached sodium_malloc
    mptr,          \* per thread: what sodium_malloc returned to it
    ret            \* per thread: "none", "Ok" or "Err"

facility == <<initialized, lock, setupRuns>>
heap == <<regions, mem, held, probeFreed>>
locals == <<pc, kind, old, lay, initRet, mcalled, mptr, ret>>
vars == <<initialized, lock, setupRuns, regions, mem, held, probeFreed,
          pc, kind, old, lay, initRet, mcalled, mptr, ret>>

NoAlloc == [ptr |-> NULL, len |-> 0, size |-> 0, align |-> 1, id |-> 0]
NoLayout == [size |-> 0, align |-> 1]

(***************************************************************************)
(* Layout::pad_to_align (lib.rs 106): the size rounded up to the next      *)
(* multiple of the alignment.                                              *)
(***************************************************************************)
\* (variant: the size is not padded)
pad_to_align_none(size, align) == size

pad_to_align(size, align) == ((size + align - 1) \div align) * align

(***************************************************************************)
(* sodium_malloc's placement (lib.rs 13-17): a read-only base page, a      *)
(* guard page, the unprotected pages that hold a canary and then the user  *)
(* bytes, which END at the page boundary, and a trailing guard page.       *)
(***************************************************************************)
page_round(n) == ((n + PageSize - 1) \div PageSize) * PageSize

UPages(size) == page_round(CanarySize + size) \div PageSize

TotalPages(size) == 3 + UPages(size)

Footprint(r) == r.base..(r.base + r.upages + 2)

FreePages == {p \in Pages : \A r \in regions : p \notin Footprint(r)}

\* the page ranges the operating system can map for a request of `size` bytes
Placements(size) ==
    {b \in Pages : \A p \in b..(b + TotalPages(size) - 1) : p \in FreePages}

\* (variant: a request for zero bytes is answered with NULL, as malloc(0) may be)
sodium_malloc_null_zero(size) == size = 0 \/ Placements(size) = {}

\* sodium_malloc returns NULL when the mapping cannot be made
sodium_malloc_null(size) == Placements(size) = {}

UnprotectedPtr(r) == (r.base + 2) * PageSize

UnprotectedEnd(r) == (r.base + 2 + r.upages) * PageSize

\* the pointer sodium_malloc returns for a mapping at base page b
UserPtr(b, size) == (b + 2 + UPages(size)) * PageSize - size

\* (variant: the canary before the user bytes is not stepped over)
RegionOfPtr_nocanary(ptr) ==
    {r \in regions : r.base = (ptr \div PageSize) - 2}

\* sodium_free finds the mapping from the pointer alone: the page that holds
\* the canary is the first unprotected page, two pages above the base page,
\* and the base page records the mapping's size
RegionOfPtr(ptr) ==
    {r \in regions : r.base = ((ptr - CanarySize) \div PageSize) - 2}

Wiped(m, r) ==
    [a \in Addrs |-> IF a >= UnprotectedPtr(r) /\ a < UnprotectedEnd(r)
                     THEN 0 ELSE m[a]]

RECURSIVE WipeAll(_, _)
WipeAll(m, rs) ==
    IF rs = {} THEN m
    ELSE LET r == CHOOSE x \in rs : TRUE IN WipeAll(Wiped(m, r), rs \ {r})

\* (variant: the memory is released without being zeroed)
sodium_free_mem_nowipe(m, ptr) == m

\* sodium_free (lib.rs 21-24, 123): zero the memory, then release the mapping
sodium_free_mem(m, ptr) == WipeAll(m, RegionOfPtr(ptr))

sodium_free_regions(rs, ptr) == rs \ RegionOfPtr(ptr)

UnprotectedPages(r) == (r.base + 2)..(r.base + 1 + r.upages)

PageAddrs(p) == (p * PageSize)..(p * PageSize + PageSize - 1)

\* history only: whether this sodium_free, or an earlier one, released the
\* probe page while it held an owner's bytes
sodium_free_probe(m, ptr) ==
    \/ probeFreed
    \/ \E r \in RegionOfPtr(ptr) :
         /\ ProbePage \in UnprotectedPages(r)
         /\ \E a \in PageAddrs(ProbePage) : m[a] # 0

(***************************************************************************)
(* init (lib.rs 134-142): sodium_init's return value is a success when it  *)
(* is not negative.                                                        *)
(***************************************************************************)
\* (variant: only "already initialized" counts as success)
InitOk_strict(r) == r > 0

\* (variant: the result of sodium_init is not looked at)
InitOk_always(r) == TRUE

InitOk(r) == r >= 0

\* (variant: no lock around sodium_init's check and setup)
LockFree_always == TRUE

\* sodium_init's critical section admits one thread at a time
LockFree == lock = NoThread

\* (variant: the flag is not read, every call runs the setup)
FlagCheck_skipped == "setup"

\* inside the lock sodium_init reads the flag: set, it has nothing to do
FlagCheck == IF initialized THEN "leave" ELSE "setup"

\* an allocation a resize in progress is working on
Busy(h) == \E t \in Threads : pc[t] # "idle" /\ old[t] = h

\* a tag no live allocation carries and no byte of memory holds
FreshTags ==
    {i \in Tags :
        /\ \A h \in held : h.id # i
        /\ \A a \in Addrs : mem[a] # i}

FreshTag == CHOOSE i \in FreshTags : \A j \in FreshTags : i <= j

Init ==
    /\ initialized = FALSE
    /\ lock = NoThread
    /\ setupRuns = 0
    /\ regions = {}
    /\ mem = [a \in Addrs |-> 0]
    /\ held = {}
    /\ probeFreed = FALSE
    /\ pc = [t \in Threads |-> "idle"]
    /\ kind = [t \in Threads |-> "allocate"]
    /\ old = [t \in Threads |-> NoAlloc]
    /\ lay = [t \in Threads |-> NoLayout]
    /\ initRet = [t \in Threads |-> 0]
    /\ mcalled = [t \in Threads |-> FALSE]
    /\ mptr = [t \in Threads |-> NULL]
    /\ ret = [t \in Threads |-> "none"]

(***************************************************************************)
(* allocate, first step (lib.rs 96-101): enter init(), which enters        *)
(* sodium_init.  A grow or shrink starts the same way, as the default grow *)
(* and shrink begin with self.allocate(new_layout) (lib.rs 126-128).       *)
(* sodium_init takes libsodium's lock and reads the flag, or fails to take *)
(* the lock and returns -1.                                                *)
(***************************************************************************)
BeginCall(t, k, h, l) ==
    /\ pc[t] = "idle"
    /\ kind' = [kind EXCEPT ![t] = k]
    /\ old' = [old EXCEPT ![t] = h]
    /\ lay' = [lay EXCEPT ![t] = l]
    /\ \/ /\ LockFree
          /\ lock' = t
          /\ pc' = [pc EXCEPT ![t] = FlagCheck]
          /\ UNCHANGED initRet
       \/ /\ pc' = [pc EXCEPT ![t] = "checked"]
          /\ initRet' = [initRet EXCEPT ![t] = 0 - 1]
          /\ UNCHANGED lock
    /\ UNCHANGED <<initialized, setupRuns, heap, mcalled, mptr, ret>>

AllocateEnter(t, l) == BeginCall(t, "allocate", NoAlloc, l)

\* grow needs new_layout.size() >= old_layout.size(), shrink <=
ResizeEnter(t, k, h, l) ==
    /\ h \in held
    /\ ~Busy(h)
    /\ \/ k = "grow" /\ l.size >= h.size
       \/ k = "shrink" /\ l.size <= h.size
    /\ BeginCall(t, k, h, l)

(***************************************************************************)
(* sodium_init inside the lock (lib.rs 97-98, 136): the first caller runs  *)
(* the setup and sets the flag (returns 0), a later one finds the flag set *)
(* (returns 1); both then release the lock, and a failure to release it    *)
(* is returned as -1.                                                      *)
(***************************************************************************)
SodiumInitLeave(t) ==
    /\ pc[t] \in {"setup", "leave"}
    /\ IF pc[t] = "setup"
       THEN /\ setupRuns' = setupRuns + 1
            /\ initialized' = TRUE
       ELSE UNCHANGED <<setupRuns, initialized>>
    /\ lock' = IF lock = t THEN NoThread ELSE lock
    /\ \/ initRet' = [initRet EXCEPT ![t] = IF pc[t] = "setup" THEN 0 ELSE 1]
       \/ initRet' = [initRet EXCEPT ![t] = 0 - 1]
    /\ pc' = [pc EXCEPT ![t] = "checked"]
    /\ UNCHANGED <<heap, kind, old, lay, mcalled, mptr, ret>>

(***************************************************************************)
(* allocate after init() has returned (lib.rs 101-119), followed for a     *)
(* grow or shrink by the copy and the deallocate of the old block.         *)
(***************************************************************************)
\* (variant: the copy stops one byte short)
CopyLen_short(k, oldsize, newsize) ==
    IF k = "grow" THEN (IF oldsize > 0 THEN oldsize - 1 ELSE 0)
    ELSE IF k = "shrink" THEN (IF newsize > 0 THEN newsize - 1 ELSE 0)
    ELSE 0

\* how many bytes a resize copies: grow copies old_layout.size(), shrink
\* copies new_layout.size()
CopyLen(k, oldsize, newsize) ==
    IF k = "grow" THEN oldsize ELSE IF k = "shrink" THEN newsize ELSE 0

Copied(m, src, dst, n) ==
    [a \in Addrs |-> IF a >= dst /\ a < dst + n THEN m[src + (a - dst)] ELSE m[a]]

\* the init()? of lib.rs 101 fails the whole call
AllocInitErr(t) ==
    /\ ~InitOk(initRet[t])
    /\ ret' = [ret EXCEPT ![t] = "Err"]
    /\ UNCHANGED <<heap, mcalled, mptr>>

\* sodium_malloc returned NULL (lib.rs 114-117)
AllocNull(t) ==
    /\ InitOk(initRet[t])
    /\ sodium_malloc_null(pad_to_align(lay[t].size, lay[t].align))
    /\ mcalled' = [mcalled EXCEPT ![t] = TRUE]
    /\ mptr' = [mptr EXCEPT ![t] = NULL]
    /\ ret' = [ret EXCEPT ![t] = "Err"]
    /\ UNCHANGED heap

\* sodium_malloc returned a pointer (lib.rs 114-119)
AllocOk(t) ==
    /\ InitOk(initRet[t])
    /\ ~sodium_malloc_null(pad_to_align(lay[t].size, lay[t].align))
    /\ \E b \in Placements(pad_to_align(lay[t].size, lay[t].align)) :
         LET padded == pad_to_align(lay[t].size, lay[t].align)
             p == UserPtr(b, padded)
             new == [ptr |-> p, len |-> padded, size |-> lay[t].size,
                     align |-> lay[t].align,
                     id |-> IF kind[t] = "allocate" THEN FreshTag ELSE old[t].id]
             r == [base |-> b, upages |-> UPages(padded)]
             n == CopyLen(kind[t], old[t].size, lay[t].size)
         IN /\ mcalled' = [mcalled EXCEPT ![t] = TRUE]
            /\ mptr' = [mptr EXCEPT ![t] = p]
            /\ ret' = [ret EXCEPT ![t] = "Ok"]
            /\ IF kind[t] = "allocate"
               THEN /\ FreshTags # {}
                    /\ regions' = regions \cup {r}
                    /\ mem' = mem
                    /\ held' = held \cup {new}
                    /\ probeFreed' = probeFreed
               ELSE /\ regions' = sodium_free_regions(regions \cup {r}, old[t].ptr)
                    /\ mem' = sodium_free_mem(Copied(mem, old[t].ptr, p, n),
                                              old[t].ptr)
                    /\ held' = (held \ {old[t]}) \cup {new}
                    /\ probeFreed' = sodium_free_probe(mem, old[t].ptr)

AllocFinish(t) ==
    /\ pc[t] = "checked"
    /\ pc' = [pc EXCEPT ![t] = "done"]
    /\ \/ AllocInitErr(t)
       \/ AllocNull(t)
       \/ AllocOk(t)
    /\ UNCHANGED <<facility, kind, old, lay, initRet>>

\* the caller takes the result and goes on
Return(t) ==
    /\ pc[t] = "done"
    /\ pc' = [pc EXCEPT ![t] = "idle"]
    /\ kind' = [kind EXCEPT ![t] = "allocate"]
    /\ old' = [old EXCEPT ![t] = NoAlloc]
    /\ lay' = [lay EXCEPT ![t] = NoLayout]
    /\ initRet' = [initRet EXCEPT ![t] = 0]
    /\ mcalled' = [mcalled EXCEPT ![t] = FALSE]
    /\ mptr' = [mptr EXCEPT ![t] = NULL]
    /\ ret' = [ret EXCEPT ![t] = "none"]
    /\ UNCHANGED <<facility, heap>>

(***************************************************************************)
(* deallocate (lib.rs 122-124): sodium_free(ptr); the layout is ignored.   *)
(***************************************************************************)
Deallocate(t, h, l) ==
    /\ pc[t] = "idle"
    /\ h \in held
    /\ ~Busy(h)
    /\ mem' = sodium_free_mem(mem, h.ptr)
    /\ regions' = sodium_free_regions(regions, h.ptr)
    /\ held' = held \ {h}
    /\ probeFreed' = sodium_free_probe(mem, h.ptr)
    /\ UNCHANGED <<facility, locals>>

(***************************************************************************)
(* The owner writes one byte of its block (lib.rs 206-214, Vec::push).     *)
(***************************************************************************)
Write(t, h, off) ==
    /\ pc[t] = "idle"
    /\ h \in held
    /\ ~Busy(h)
    /\ off \in 0..(h.len - 1)
    /\ mem' = [mem EXCEPT ![h.ptr + off] = h.id]
    /\ UNCHANGED <<facility, regions, held, probeFreed, locals>>

\* one thread uses the allocator: allocate, write, deallocate
Next ==
    \/ \E l \in Layouts : AllocateEnter(1, l)
    \/ SodiumInitLeave(1)
    \/ AllocFinish(1)
    \/ Return(1)
    \/ \E h \in held, l \in Layouts : Deallocate(1, h, l)
    \/ \E h \in held, off \in 0..(MaxSize + 4) : Write(1, h, off)

Spec == Init /\ [][Next]_vars

\* one thread uses the allocator and resizes its blocks (Vec::reserve,
\* lib.rs 43-49)
NextResize ==
    \/ \E l \in ResizeLayouts : AllocateEnter(1, l)
    \/ \E h \in held, l \in ResizeLayouts, k \in {"grow", "shrink"} :
         ResizeEnter(1, k, h, l)
    \/ SodiumInitLeave(1)
    \/ AllocFinish(1)
    \/ Return(1)
    \/ \E h \in held : Deallocate(1, h, [size |-> h.size, align |-> h.align])
    \/ \E h \in held, off \in 0..(MaxSize + 4) : Write(1, h, off)

SpecResize == Init /\ [][NextResize]_vars

\* every thread allocates and deallocates, in any interleaving
NextConc ==
    \/ \E t \in Threads, l \in ConcLayouts : AllocateEnter(t, l)
    \/ \E t \in Threads : SodiumInitLeave(t)
    \/ \E t \in Threads : AllocFinish(t)
    \/ \E t \in Threads : Return(t)
    \/ \E t \in Threads, h \in held :
         Deallocate(t, h, [size |-> h.size, align |-> h.align])

SpecConc == Init /\ [][NextConc]_vars

(***************************************************************************)
(* Notions the properties are stated in, defined apart from the model's    *)
(* own operators.                                                          *)
(***************************************************************************)
\* the smallest multiple of align that is >= size
SmallestMultiple(size, align) ==
    CHOOSE n \in 0..(size + align) :
        /\ n % align = 0
        /\ n >= size
        /\ \A m \in 0..(size + align) : (m % align = 0 /\ m >= size) => n <= m

UserRange(h) == h.ptr..(h.ptr + h.len - 1)

\* the facility's mapping an allocation lives in: its user bytes end where
\* the trailing guard page begins
MappingsOf(h) == {r \in regions : UnprotectedEnd(r) = h.ptr + h.len}

\* sodium_init has returned to the thread in its current call
Observed(t) == pc[t] \in {"checked", "done"}

\* thread t makes, in this step, the part of its call that follows init()
Finishing(t) == pc[t] = "checked" /\ pc'[t] = "done"

Min(a, b) == IF a <= b THEN a ELSE b

(***************************************************************************)
(* C1: a successful allocate(size, align) asks the facility for exactly    *)
(* padded_size bytes, the smallest multiple of align that is >= size, and  *)
(* reports that length: the length is >= size, is size when align is 1,    *)
(* and every byte 0..len-1 lies in the memory the facility mapped for it.  *)
(***************************************************************************)
C1_PaddedLength ==
    /\ \A h \in held :
         /\ h.len = SmallestMultiple(h.size, h.align)
         /\ h.len >= h.size
         /\ (h.align = 1 => h.len = h.size)
         /\ \E r \in regions :
              /\ UnprotectedEnd(r) - h.ptr = h.len
              /\ r.upages * PageSize >= CanarySize + h.len
              /\ (r.upages - 1) * PageSize < CanarySize + h.len
              /\ \A a \in UserRange(h) :
                   a >= UnprotectedPtr(r) + CanarySize /\ a < UnprotectedEnd(r)
    /\ \A t \in Threads :
         (pc[t] = "done" /\ ret[t] = "Ok") =>
            \E h \in held :
               /\ h.ptr = mptr[t]
               /\ h.size = lay[t].size
               /\ h.align = lay[t].align

C1_Witness ==
    /\ pc[1] = "done"
    /\ ret[1] = "Ok"
    /\ lay[1] = [size |-> 1, align |-> 4]
    /\ \E h \in held : h.ptr = mptr[1] /\ h.len = 4 /\ h.size = 1

(***************************************************************************)
(* C2: the address a successful allocate(size, align) returns is a         *)
(* multiple of align, for every size and every power-of-two align.         *)
(***************************************************************************)
C2_Aligned == \A h \in held : h.ptr % h.align = 0

(***************************************************************************)
(* C3: allocate(0, 1) is legal: it fails only as any request does (init    *)
(* failed, or no room for a mapping), never for its size; on success the   *)
(* region has length 0 and a non-null pointer that deallocate can release. *)
(***************************************************************************)
C3_ZeroSize ==
    \A t \in Threads :
       (pc[t] = "done" /\ kind[t] = "allocate"
           /\ lay[t] = [size |-> 0, align |-> 1]) =>
          /\ ret[t] = "Err" =>
                \/ initRet[t] < 0
                \/ ~ \E b \in Pages : \A p \in b..(b + 3) : p \in FreePages
          /\ ret[t] = "Ok" =>
                /\ mptr[t] # NULL
                /\ \E h \in held :
                     /\ h.ptr = mptr[t]
                     /\ h.len = 0
                     /\ Cardinality(MappingsOf(h)) = 1
                     /\ sodium_free_regions(regions, h.ptr) =
                           regions \ MappingsOf(h)

C3_Witness ==
    /\ pc[1] = "done"
    /\ ret[1] = "Ok"
    /\ lay[1] = [size |-> 0, align |-> 1]
    /\ \E h \in held : h.ptr = mptr[1] /\ h.len = 0
    /\ Cardinality(held) = 2

C6_ErrorExactlyWhen ==
    [][\A t \in Threads :
         Finishing(t) =>
            /\ ret'[t] \in {"Ok", "Err"}
            /\ (ret'[t] = "Err") <=>
                  (initRet[t] < 0 \/ (mcalled'[t] /\ mptr'[t] = NULL))
            /\ initRet[t] < 0 => ~mcalled'[t]
            /\ (mcalled'[t] /\ mptr'[t] = NULL) =>
                  Placements(SmallestMultiple(lay[t].size, lay[t].align)) = {}
            /\ ret'[t] = "Err" =>
                  (regions' = regions /\ held' = held /\ mem' = mem)]_vars

C6_Witness ==
    /\ pc[1] = "done"
    /\ ret[1] = "Err"
    /\ mcalled[1]
    /\ mptr[1] = NULL
    /\ Cardinality(held) = 2

(***************************************************************************)
(* C7: sodium_free overwrites the region before the memory is released:    *)
(* memory outside the live allocations holds no owner's bytes, and an      *)
(* allocation, also one on a reused address range, shows only bytes its    *)
(* own owner wrote.                                                        *)
(***************************************************************************)
C7_WipedOnFree ==
    /\ \A a \in Addrs :
         (\A h \in held : a \notin UserRange(h)) => mem[a] = 0
    /\ \A h \in held : \A a \in UserRange(h) : mem[a] \in {0, h.id}

C7_Witness ==
    /\ probeFreed
    /\ \E h \in held :
         /\ UserRange(h) \cap PageAddrs(ProbePage) # {}
         /\ \E a \in UserRange(h) : mem[a] = h.id

(***************************************************************************)
(* C8: grow and shrink are allocate, copy, deallocate: on success the new  *)
(* region holds the first min(old size, new size) bytes of the old one and *)
(* the old region is deallocated (once: its mapping is gone and wiped, the *)
(* others stay); when the allocation fails the error is returned and the   *)
(* old region is still mapped, unchanged and owned by the caller.          *)
(***************************************************************************)
C8_Resize ==
    [][\A t \in Threads :
         (Finishing(t) /\ kind[t] \in {"grow", "shrink"}) =>
            /\ ret'[t] = "Ok" =>
                  /\ \E n \in held' :
                       /\ n.ptr = mptr'[t]
                       /\ n \notin held
                       /\ n.size = lay[t].size
                       /\ \A i \in 0..(Min(old[t].size, lay[t].size) - 1) :
                            mem'[n.ptr + i] = mem[old[t].ptr + i]
                       /\ held' = (held \ {old[t]}) \cup {n}
                  /\ old[t] \notin held'
                  /\ regions' \cap MappingsOf(old[t]) = {}
                  /\ regions \ MappingsOf(old[t]) \subseteq regions'
                  /\ Cardinality(regions') = Cardinality(regions)
                  /\ \A a \in UserRange(old[t]) : mem'[a] = 0
            /\ ret'[t] = "Err" =>
                  /\ old[t] \in held'
                  /\ held' = held
                  /\ regions' = regions
                  /\ mem' = mem]_vars

C8_Witness ==
    /\ pc[1] = "done"
    /\ kind[1] = "grow"
    /\ ret[1] = "Ok"
    /\ old[1].size = 1
    /\ lay[1].size = 2
    /\ mem[mptr[1]] # 0
    /\ mem[mptr[1] + 1] = 0

(***************************************************************************)
(* C9: deallocate releases the whole mapping whatever descriptor it is     *)
(* given: the facility's mappings are exactly those of the allocations     *)
(* still owned, so with every allocation deallocated nothing is mapped and *)
(* every request that fits the address space can be placed again.          *)
(***************************************************************************)
C9_NoLeak ==
    /\ Cardinality(regions) = Cardinality(held)
    /\ \A r \in regions : \E h \in held : MappingsOf(h) = {r}
    /\ held = {} =>
         /\ regions = {}
         /\ FreePages = Pages
         /\ \A l \in Layouts :
              TotalPages(SmallestMultiple(l.size, l.align)) <= NumPages =>
                 Placements(SmallestMultiple(l.size, l.align)) # {}

C9_Witness ==
    /\ held = {}
    /\ probeFreed
    /\ pc[1] = "idle"

(***************************************************************************)
(* C10: in every interleaving the facility's allocation and free are       *)
(* invoked only while the state is ready: a call reaches sodium_malloc     *)
(* only after its own init check succeeded, and a live allocation exists   *)
(* only when the state is ready.                                           *)
(***************************************************************************)
C10_OnlyWhenReady ==
    /\ \A t \in Threads : mcalled[t] => (initialized /\ initRet[t] >= 0)
    /\ \A t \in Threads : (Observed(t) /\ initRet[t] >= 0) => initialized
    /\ (regions # {} \/ held # {}) => initialized

C10_Witness ==
    /\ mcalled[1]
    /\ ret[1] = "Ok"
    /\ held # {}
    /\ pc[2] = "done"
    /\ initRet[2] < 0
    /\ ~mcalled[2]
====
